---- MODULE Spec2Model ----
(***************************************************************************)
(* Model of the Flappy Bird game loop of src/main.go: the Game struct and  *)
(* its Update handler (one tick), NewPillar and Reset.                     *)
(*                                                                         *)
(* birdY and birdDY are float64 in the source and move in steps of 0.1;    *)
(* they are modelled in integer tenths of a pixel (3150 = 315.0 px), so    *)
(* gravity 0.1 is 1 and the jump impulse -2 is -20.  Pillar coordinates    *)
(* are ints in the source and stay in whole pixels; Px converts them for   *)
(* the comparisons of line 80.  The tenths are exact, where float64        *)
(* rounds each sum; the properties below that hold are about the flags,    *)
(* the counters and the pillars' integer coordinates.                      *)
(***************************************************************************)
EXTENDS Integers, Sequences, FiniteSets

VARIABLES birdY, birdDY, pillars, frameCount, isGameOver, score, started,
          mu, pcUpdate, pcDraw, released

(* the fields of Game that Update and Reset write *)
gameVars == <<birdY, birdDY, pillars, frameCount, isGameOver, score, started>>

(* mu: who holds g.mu; pcUpdate, pcDraw: the line a thread running Update  *)
(* or Draw stands at; released: the player has let go of the jump keys for *)
(* good                                                                    *)
runVars == <<mu, pcUpdate, pcDraw, released>>

vars == <<birdY, birdDY, pillars, frameCount, isGameOver, score, started,
          mu, pcUpdate, pcDraw, released>>

(* ------------------------------------------------------------------ *)
(* Program constants (src/main.go:16-23) and the literals of Update.   *)
(* ------------------------------------------------------------------ *)
screenWidth == 640
screenHeight == 630
birdSize == 40
pillarWidth == 200
pillarGap == 200
pillarSpeed == 3
(* g.birdDY += 0.1, in tenths *)
gravityTenths == 1
(* g.birdDY = -2, in tenths *)
jumpTenths == -20

(* float64(n) of a whole number of pixels, in tenths of a pixel *)
Px(n) == 10 * n

(* ------------------------------------------------------------------ *)
(* Bounds of the model (not program constants).                        *)
(* ------------------------------------------------------------------ *)
(* ticks of one game that are explored: frameCount never exceeds it *)
MaxFrame == 930
(* the player presses jump while playing only once the bird falls at   *)
(* least this fast (tenths per tick) ...                               *)
MinJumpDY == 21
(* ... and never lets the bird fall faster than this *)
MaxDY == 22
(* ticks of one game that are explored when Update and Draw run as two *)
(* threads                                                             *)
ThreadFrames == 430
(* the frames of a game between which the player may let go of the jump *)
(* keys for good, in the runs that end in a free fall                   *)
GiveUpFrom == 380
GiveUpBy == 420

(* the values of rand.Intn(screenHeight - pillarGap - pillarWidth) that *)
(* are explored: the smallest, a middle one and the largest            *)
RandN == screenHeight - pillarGap - pillarWidth
RandDraws == {0, RandN \div 2, RandN - 1}

(* ------------------------------------------------------------------ *)
(* The Game struct as a record, and its three states.                  *)
(* ------------------------------------------------------------------ *)
G == [birdY |-> birdY, birdDY |-> birdDY, pillars |-> pillars,
      frameCount |-> frameCount, isGameOver |-> isGameOver,
      score |-> score, started |-> started]

StateOf(g) == IF g.isGameOver THEN "OVER"
              ELSE IF g.started THEN "PLAYING" ELSE "WAITING"

(* game := &Game{pillars: []*Pillar{}}: every other field is Go's zero value *)
InitGame == [birdY |-> 0, birdDY |-> 0, pillars |-> <<>>, frameCount |-> 0,
             isGameOver |-> FALSE, score |-> 0, started |-> FALSE]

(* a pillar whose offset is drawn over the whole screen height *)
NewPillarAnywhere(r, id) ==
    [x |-> screenWidth, y |-> (r * screenHeight) \div RandN, id |-> id]

(* a pillar created one step right of the screen edge *)
NewPillarPastEdge(r, id) ==
    [x |-> screenWidth + pillarSpeed, y |-> IF r < 0 THEN 0 ELSE r, id |-> id]

(* NewPillar: r is the value rand.Intn returned; id stands for the      *)
(* identity of the freshly allocated *Pillar                            *)
NewPillar(r, id) == [x |-> screenWidth, y |-> IF r < 0 THEN 0 ELSE r, id |-> id]

(* a Reset that forgets the score *)
ResetKeepsScore(g) == [birdY |-> Px(screenHeight \div 2), birdDY |-> 0, pillars |-> <<>>,
             frameCount |-> 0, isGameOver |-> FALSE, score |-> g.score,
             started |-> FALSE]

(* a Reset that forgets the frame counter *)
ResetKeepsFrameCount(g) ==
    [birdY |-> Px(screenHeight \div 2), birdDY |-> 0, pillars |-> <<>>,
     frameCount |-> g.frameCount, isGameOver |-> FALSE, score |-> 0,
     started |-> FALSE]

(* Reset *)
Reset(g) == [birdY |-> Px(screenHeight \div 2), birdDY |-> 0, pillars |-> <<>>,
             frameCount |-> 0, isGameOver |-> FALSE, score |-> 0,
             started |-> FALSE]

(* a start that does not wait for the jump key *)
StartWithoutJump(g, jump) ==
    IF ~g.isGameOver /\ ~g.started THEN [g EXCEPT !.started = TRUE] ELSE g

(* lines 49-53: the jump key starts a waiting game *)
StartIfJump(g, jump) ==
    IF ~g.isGameOver /\ ~g.started /\ jump THEN [g EXCEPT !.started = TRUE] ELSE g

(* lines 57-62: gravity, then the jump key overrides the velocity *)
NextDY(dy, jump) == IF jump THEN jumpTenths ELSE dy + gravityTenths

(* a spawn test that counts from the frame before the increment *)
SpawnDueBeforeIncrement(fc) == (fc - 1) % (screenWidth \div pillarSpeed) = 0

(* line 67 *)
SpawnDue(fc) == fc % (screenWidth \div pillarSpeed) = 0

(* a move that is one pixel too fast *)
MovePillarTooFast(p) == [p EXCEPT !.x = @ - (pillarSpeed + 1)]

(* line 73 *)
MovePillar(p) == [p EXCEPT !.x = @ - pillarSpeed]

(* a left-edge test that is off by one *)
PassedAtEdge(p) == p.x <= -pillarWidth

(* a left-edge test that lets the pillar go one more tick *)
PassedOneTickLate(p) == p.x < -pillarWidth - pillarSpeed

(* line 74 *)
Passed(p) == p.x < -pillarWidth

(* lines 80-81 *)
Collides(y, p) ==
    /\ (y < Px(p.y) \/ y > Px(p.y + pillarGap))
    /\ (p.x < birdSize /\ p.x > -pillarWidth)

(* lines 72-85: the range loop runs over the slice as it was when the   *)
(* loop began (snap); acc.dropped counts the g.pillars = g.pillars[1:]  *)
(* executed so far, acc.moved holds the elements already visited        *)
RECURSIVE PillarLoop(_, _, _, _)
PillarLoop(snap, i, y, acc) ==
    IF i > Len(snap) THEN acc
    ELSE LET p == MovePillar(snap[i])
         IN PillarLoop(snap, i + 1, y,
                [moved   |-> Append(acc.moved, p),
                 dropped |-> acc.dropped + (IF Passed(p) THEN 1 ELSE 0),
                 score   |-> acc.score + (IF Passed(p) THEN 1 ELSE 0),
                 over    |-> acc.over \/ Collides(y, p)])

(* a spawn that puts the new pillar at the front of the slice *)
AfterSpawnAtFront(ps, fc, r) ==
    IF SpawnDue(fc)
    THEN <<NewPillar(r, fc \div (screenWidth \div pillarSpeed))>> \o ps
    ELSE ps

(* lines 66-69: the slice after the spawn step, fc the incremented counter *)
AfterSpawn(ps, fc, r) ==
    IF SpawnDue(fc)
    THEN Append(ps, NewPillar(r, fc \div (screenWidth \div pillarSpeed)))
    ELSE ps

(* lines 55-86, for a game that is started and not over *)
PlayingBlock(g, jump, r) ==
    LET dy == NextDY(g.birdDY, jump)
        y  == g.birdY + dy
        fc == g.frameCount + 1
        l  == PillarLoop(AfterSpawn(g.pillars, fc, r), 1, y,
                [moved |-> <<>>, dropped |-> 0, score |-> g.score,
                 over |-> g.isGameOver])
    IN [birdY |-> y, birdDY |-> dy,
        pillars |-> SubSeq(l.moved, l.dropped + 1, Len(l.moved)),
        frameCount |-> fc, isGameOver |-> l.over, score |-> l.score,
        started |-> g.started]

(* a restart that does not look at the game-over flag *)
ResetOnConfirmAlone(g, confirm) == IF confirm THEN Reset(g) ELSE g

(* lines 88-90 *)
ResetIfConfirm(g, confirm) == IF g.isGameOver /\ confirm THEN Reset(g) ELSE g

(* an Update whose playing step is skipped on the tick that starts the game *)
UpdateStartOnly(g, jump, confirm, r) ==
    LET g1 == StartIfJump(g, jump)
        g2 == IF g.started /\ ~g.isGameOver THEN PlayingBlock(g1, jump, r) ELSE g1
    IN ResetIfConfirm(g2, confirm)

(* Update, lines 48-93: jump is IsKeyPressed(Space) || IsKeyPressed(ArrowUp), *)
(* confirm is IsKeyPressed(Enter), r the random draw of NewPillar            *)
UpdateResult(g, jump, confirm, r) ==
    LET g1 == StartIfJump(g, jump)
        g2 == IF g1.started /\ ~g1.isGameOver THEN PlayingBlock(g1, jump, r) ELSE g1
    IN ResetIfConfirm(g2, confirm)

(* the state at line 86 of a tick, before the Enter key is looked at *)
BeforeConfirm(g, jump, r) == UpdateResult(g, jump, FALSE, r)

(* Draw, lines 108-116: the top-left corners at which the pillar sprite  *)
(* is drawn twice for pillar p; the second Translate adds to the first   *)
DrawPillar(p) ==
    [upper |-> [x |-> p.x, y |-> p.y],
     lower |-> [x |-> p.x, y |-> p.y + (pillarGap + pillarWidth)]]

(* ------------------------------------------------------------------ *)
(* The state machine.                                                  *)
(* ------------------------------------------------------------------ *)
Init ==
    /\ birdY = InitGame.birdY
    /\ birdDY = InitGame.birdDY
    /\ pillars = InitGame.pillars
    /\ frameCount = InitGame.frameCount
    /\ isGameOver = InitGame.isGameOver
    /\ score = InitGame.score
    /\ started = InitGame.started
    /\ mu = "free"
    /\ pcUpdate = "line49"
    /\ pcDraw = "idle"
    /\ released = FALSE

(* the keys the player is taken to press on a tick (the bounds above) *)
PlayerMay(jump) ==
    StateOf(G) = "PLAYING" =>
        /\ frameCount < MaxFrame
        /\ jump => birdDY >= MinJumpDY
        /\ ~jump => birdDY < MaxDY

Update(jump, confirm, r) ==
    LET n == UpdateResult(G, jump, confirm, r)
    IN /\ birdY' = n.birdY
       /\ birdDY' = n.birdDY
       /\ pillars' = n.pillars
       /\ frameCount' = n.frameCount
       /\ isGameOver' = n.isGameOver
       /\ score' = n.score
       /\ started' = n.started

Next == \E jump \in BOOLEAN, confirm \in BOOLEAN, r \in RandDraws :
            PlayerMay(jump) /\ Update(jump, confirm, r) /\ UNCHANGED runVars

Spec == Init /\ [][Next]_vars

(* ------------------------------------------------------------------ *)
(* Update and Draw as two threads on the same Game.  Update takes no   *)
(* lock, so its writes are not one step for the other thread: a tick   *)
(* is cut at line 72 (before the pillar loop) and at line 88 (before   *)
(* the Enter key is looked at).  Draw holds g.mu from line 97 until it *)
(* returns.                                                            *)
(* ------------------------------------------------------------------ *)
SetGame(n) ==
    /\ birdY' = n.birdY
    /\ birdDY' = n.birdDY
    /\ pillars' = n.pillars
    /\ frameCount' = n.frameCount
    /\ isGameOver' = n.isGameOver
    /\ score' = n.score
    /\ started' = n.started

(* lines 49-69: start, velocity, position, frame counter, spawn *)
UpdateToLine70(g, jump, r) ==
    LET g1 == StartIfJump(g, jump)
        dy == NextDY(g1.birdDY, jump)
    IN IF g1.started /\ ~g1.isGameOver
       THEN [g1 EXCEPT !.birdDY = dy, !.birdY = @ + dy,
                       !.frameCount = @ + 1,
                       !.pillars = AfterSpawn(@, g1.frameCount + 1, r)]
       ELSE g1

(* lines 72-85 *)
UpdateLoop(g) ==
    LET l == PillarLoop(g.pillars, 1, g.birdY,
                [moved |-> <<>>, dropped |-> 0, score |-> g.score,
                 over |-> g.isGameOver])
    IN [g EXCEPT !.pillars = SubSeq(l.moved, l.dropped + 1, Len(l.moved)),
                 !.isGameOver = l.over, !.score = l.score]

ThreadUpdateStart(jump, r) ==
    /\ pcUpdate = "line49"
    /\ PlayerMay(jump) /\ frameCount < ThreadFrames
    /\ LET n == UpdateToLine70(G, jump, r)
       IN /\ SetGame(n)
          /\ pcUpdate' = IF n.started /\ ~n.isGameOver THEN "line72" ELSE "line88"
    /\ UNCHANGED <<mu, pcDraw, released>>

ThreadUpdateLoop ==
    /\ pcUpdate = "line72"
    /\ SetGame(UpdateLoop(G))
    /\ pcUpdate' = "line88"
    /\ UNCHANGED <<mu, pcDraw, released>>

ThreadUpdateConfirm(confirm) ==
    /\ pcUpdate = "line88"
    /\ SetGame(ResetIfConfirm(G, confirm))
    /\ pcUpdate' = "line49"
    /\ UNCHANGED <<mu, pcDraw, released>>

(* Draw, lines 97-98: g.mu.Lock() *)
ThreadDrawLock ==
    /\ pcDraw = "idle" /\ mu = "free"
    /\ mu' = "Draw" /\ pcDraw' = "line100"
    /\ UNCHANGED <<gameVars, pcUpdate, released>>

(* Draw, lines 100-130: reads the game, then the deferred g.mu.Unlock() *)
ThreadDrawUnlock ==
    /\ pcDraw = "line100"
    /\ mu' = "free" /\ pcDraw' = "idle"
    /\ UNCHANGED <<gameVars, pcUpdate, released>>

ThreadNext ==
    \/ \E jump \in BOOLEAN, r \in RandDraws : ThreadUpdateStart(jump, r)
    \/ ThreadUpdateLoop
    \/ \E confirm \in BOOLEAN : ThreadUpdateConfirm(confirm)
    \/ ThreadDrawLock
    \/ ThreadDrawUnlock

SpecThreads == Init /\ [][ThreadNext]_vars

(* ------------------------------------------------------------------ *)
(* The game loop with a player who at some tick lets go of the jump    *)
(* keys for good (released); ebiten.RunGame keeps calling Update.      *)
(* ------------------------------------------------------------------ *)
FallPlayerMay(jump) ==
    IF released
    THEN ~jump /\ (StateOf(G) = "PLAYING" => frameCount < MaxFrame)
    ELSE PlayerMay(jump) /\ (StateOf(G) = "PLAYING" => frameCount < GiveUpBy)

FallTick ==
    \E jump \in BOOLEAN, confirm \in BOOLEAN, r \in RandDraws :
        FallPlayerMay(jump) /\ Update(jump, confirm, r) /\ UNCHANGED runVars

Release ==
    /\ ~released /\ StateOf(G) = "PLAYING" /\ frameCount >= GiveUpFrom
    /\ released' = TRUE
    /\ UNCHANGED <<gameVars, mu, pcUpdate, pcDraw>>

FallNext == FallTick \/ Release

SpecFall == Init /\ [][FallNext]_vars /\ WF_vars(FallTick)

(* ------------------------------------------------------------------ *)
(* Properties.  A tick is Update applied to the current state G with   *)
(* every combination of the inputs; Keys and RandDraws are the inputs. *)
(* ------------------------------------------------------------------ *)
Playing == StateOf(G) = "PLAYING"
Waiting == StateOf(G) = "WAITING"
Over == StateOf(G) = "OVER"

(* the pillars a tick of a started game looks at, each at its position  *)
(* after the move of that tick                                         *)
MovedPillars(r) ==
    LET ps == AfterSpawn(pillars, frameCount + 1, r)
    IN {[x |-> ps[i].x - 3, y |-> ps[i].y] : i \in 1..Len(ps)}

(* the bird is outside the gap band of q while q is in the bird's column *)
OutsideGapInColumn(pos, q) ==
    /\ (pos < 10 * q.y \/ pos > 10 * (q.y + 200))
    /\ (-200 < q.x /\ q.x < 40)

(* C1: a tick that begins in PLAYING ends in OVER if and only if, with   *)
(* the bird position and the pillar positions that tick computes, the    *)
(* bird is outside the gap band of some pillar with -200 < x < 40.       *)
C1_OverIffCollision ==
    [][\A j \in BOOLEAN, c \in BOOLEAN, r \in RandDraws :
          (Playing /\ Update(j, c, r)) =>
              LET pos == birdY + (IF j THEN -20 ELSE birdDY + 1)
              IN (StateOf(G') = "OVER")
                 <=> (\E q \in MovedPillars(r) : OutsideGapInColumn(pos, q))]_vars

(* C2: the state before and after a tick are equal or one of            *)
(* WAITING->PLAYING, PLAYING->OVER, OVER->WAITING; in particular no     *)
(* tick goes from PLAYING to WAITING or from WAITING to OVER.           *)
C2_OnlyListedTransitions ==
    [][LET t == <<StateOf(G), StateOf(G')>>
       IN t \in {<<"WAITING", "WAITING">>, <<"WAITING", "PLAYING">>,
                 <<"PLAYING", "PLAYING">>, <<"PLAYING", "OVER">>,
                 <<"OVER", "OVER">>, <<"OVER", "WAITING">>}]_vars

(* C3: a tick that begins in OVER with the confirm input active ends in *)
(* WAITING with the bird at 315 px, velocity 0, no pillars, score 0 and *)
(* frame counter 0, whatever the jump input and the state before.       *)
C3_ResetFromOver ==
    Over =>
        \A j \in BOOLEAN, r \in RandDraws :
            UpdateResult(G, j, TRUE, r) =
                [birdY |-> 3150, birdDY |-> 0, pillars |-> <<>>, score |-> 0,
                 frameCount |-> 0, isGameOver |-> FALSE, started |-> FALSE]

(* a reset has acted: only Reset puts a waiting bird at 315 px, and it   *)
(* has wiped a game in which time had passed                             *)
C3_Witness ==
    Waiting /\ birdY = 3150 /\ birdDY = 0 /\ pillars = <<>> /\ score = 0
    /\ frameCount = 0

(* the pillars whose position goes from >= -200 to < -200 on a tick *)
Crossing == {i \in 1..Len(pillars) : pillars[i].x >= -200 /\ pillars[i].x - 3 < -200}

(* the tick with inputs j, c, r calls Reset *)
Resets(j, c, r) == c /\ BeforeConfirm(G, j, r).isGameOver

(* C4: between resets, on a tick that begins in PLAYING the score grows  *)
(* by the number of pillars that cross below -200 on that tick, which is *)
(* 0 or 1 (also at line 86 of a tick that then resets); a tick that      *)
(* begins in WAITING or OVER does not increase the score.                *)
C4_ScorePerCrossing ==
    \A j \in BOOLEAN, c \in BOOLEAN, r \in RandDraws :
        /\ Playing =>
              /\ Cardinality(Crossing) <= 1
              /\ BeforeConfirm(G, j, r).score - score = Cardinality(Crossing)
              /\ ~Resets(j, c, r) =>
                    UpdateResult(G, j, c, r).score - score = Cardinality(Crossing)
        /\ ~Playing => UpdateResult(G, j, c, r).score <= score

(* the first pillar has just crossed the left edge and was counted *)
C4_Witness ==
    Playing /\ score = 1 /\ frameCount = 493 /\ Len(pillars) = 1

(* C5: on a tick that begins in PLAYING exactly one pillar is appended   *)
(* (it ends the playing step last in the sequence, at 637) if the frame  *)
(* counter after the increment is a multiple of 213, and none otherwise; *)
(* a tick that begins in WAITING or OVER appends none.                   *)
C5_SpawnCadence ==
    \A j \in BOOLEAN, c \in BOOLEAN, r \in RandDraws :
        LET m == BeforeConfirm(G, j, r)
            n == UpdateResult(G, j, c, r)
            kept == Len(pillars) - Cardinality(Crossing)
        IN /\ Playing /\ (frameCount + 1) % 213 = 0 =>
                 /\ Len(m.pillars) = kept + 1
                 /\ m.pillars[Len(m.pillars)].x = 637
                 /\ m.pillars[Len(m.pillars)].y = r
                 /\ ~Resets(j, c, r) => n.pillars = m.pillars
           /\ Playing /\ (frameCount + 1) % 213 # 0 =>
                 /\ Len(m.pillars) = kept
                 /\ Len(n.pillars) <= kept
           /\ ~Playing => Len(n.pillars) <= Len(pillars)

(* the second pillar has just been spawned, 213 ticks after the first *)
C5_Witness ==
    /\ Playing /\ frameCount = 426 /\ Len(pillars) = 2
    /\ pillars[2].x = 637 /\ pillars[1].x = 637 - 3 * 213

(* C6: on a tick that begins in PLAYING the velocity after the tick is   *)
(* the previous velocity + 1 tenth without the jump input and -20 tenths *)
(* with it.                                                              *)
C6_VelocityUpdate ==
    [][\A j \in BOOLEAN, c \in BOOLEAN, r \in RandDraws :
          (Playing /\ Update(j, c, r)) =>
              birdDY' = IF j THEN -20 ELSE birdDY + 1]_vars

(* C7: on a tick that begins in PLAYING a pillar that is in the sequence *)
(* before and after the tick has moved left by 3 with its gap offset     *)
(* unchanged, and a pillar that is new after the tick is at 637; a tick  *)
(* that begins in WAITING or OVER changes no pillar.                     *)
C7_PillarsMoveBySpeed ==
    \A j \in BOOLEAN, c \in BOOLEAN, r \in RandDraws :
        LET n == UpdateResult(G, j, c, r)
        IN \A k \in 1..Len(n.pillars) :
              LET q == n.pillars[k]
                  old == {i \in 1..Len(pillars) : pillars[i].id = q.id}
              IN /\ Playing =>
                      /\ \A i \in old : q.x = pillars[i].x - 3 /\ q.y = pillars[i].y
                      /\ old = {} => q.x = 637
                 /\ ~Playing => \E i \in old : q = pillars[i]

(* two pillars that have moved in step since the second was spawned *)
C7_Witness ==
    /\ Playing /\ frameCount = 430 /\ Len(pillars) = 2
    /\ pillars[2].x = 640 - 3 * 5 /\ pillars[1].x = 640 - 3 * 218

(* C8: in every WAITING state, the first one included, the bird is at    *)
(* 315 px with velocity 0.                                               *)
C8_BirdCentredWhenWaiting ==
    Waiting => birdY = 3150 /\ birdDY = 0

(* C9: a tick that begins in WAITING without the jump input, and a tick  *)
(* that begins in OVER without the confirm input, leave the whole state  *)
(* unchanged whatever the other input is.                                *)
C9_InputsIgnored ==
    \A j \in BOOLEAN, c \in BOOLEAN, r \in RandDraws :
        /\ Waiting /\ ~j => UpdateResult(G, j, c, r) = G
        /\ Over /\ ~c => UpdateResult(G, j, c, r) = G

(* a game that is over with its pillars, score and bird left as they were *)
C9_Witness ==
    Over /\ pillars # <<>> /\ frameCount >= 413 /\ birdDY # 0

(* the states the game can be in after k ticks without the jump input,  *)
(* from the starting state                                              *)
RECURSIVE NoJumpStates(_)
NoJumpStates(k) ==
    IF k = 0 THEN {InitGame}
    ELSE {UpdateResult(g, FALSE, c, r) :
             g \in NoJumpStates(k - 1), c \in BOOLEAN, r \in RandDraws}

(* C10 as stated: from the starting state, on each of 100 ticks without *)
(* the jump input the bird position strictly increases and the game is  *)
(* not OVER.                                                            *)
C10_FallsFromStart ==
    G = InitGame =>
        \A k \in 1..100 : \A g \in NoJumpStates(k - 1) :
            \A c \in BOOLEAN, r \in RandDraws :
                LET n == UpdateResult(g, FALSE, c, r)
                IN n.birdY > g.birdY /\ StateOf(n) # "OVER"

(* C10 amended: from the starting state, on each of 100 ticks without   *)
(* the jump input the bird position stays what it was (the game stays   *)
(* WAITING) and the game is not OVER.                                   *)
C10_RestsAtStart ==
    G = InitGame =>
        \A k \in 1..100 : \A g \in NoJumpStates(k - 1) :
            \A c \in BOOLEAN, r \in RandDraws :
                LET n == UpdateResult(g, FALSE, c, r)
                IN n.birdY = g.birdY /\ StateOf(n) # "OVER"

(* the starting state, in which those ticks run *)
C10_Witness ==
    Waiting /\ birdY = 0 /\ birdDY = 0 /\ frameCount = 0 /\ pillars = <<>>


(* C11: every pillar's gap fits on the screen, 0 <= y and y + 200 <= 630, *)
(* in every reachable state and for every value rand.Intn(230) can        *)
(* return; and no tick changes the offset of a pillar it keeps.           *)
C11_GapFitsOnScreen ==
    /\ \A i \in 1..Len(pillars) : 0 <= pillars[i].y /\ pillars[i].y + 200 <= 630
    /\ \A d \in 0..229 : 0 <= NewPillar(d, 0).y /\ NewPillar(d, 0).y + 200 <= 630
    /\ \A j \in BOOLEAN, c \in BOOLEAN, r \in RandDraws :
          LET n == UpdateResult(G, j, c, r)
          IN \A k \in 1..Len(n.pillars) :
                /\ 0 <= n.pillars[k].y /\ n.pillars[k].y + 200 <= 630
                /\ \A i \in 1..Len(pillars) :
                      pillars[i].id = n.pillars[k].id => n.pillars[k].y = pillars[i].y

(* a pillar with the largest offset the draw can give, well after its spawn *)
C11_Witness ==
    \E i \in 1..Len(pillars) : pillars[i].y = 229 /\ pillars[i].x < 0

(* C12: the pillar sequence is strictly increasing in x from the first    *)
(* (oldest) to the last (newest) pillar.                                  *)
C12_SortedByX ==
    \A i \in 1..Len(pillars) : \A k \in 1..Len(pillars) :
        i < k => pillars[i].x < pillars[k].x /\ pillars[i].id < pillars[k].id

(* two pillars on screen, the older one 639 px to the left of the newer *)
C12_Witness ==
    Len(pillars) = 2 /\ pillars[1].x = pillars[2].x - 639


(* C13: on a tick that begins in PLAYING the position after the tick is  *)
(* the previous position plus the velocity that tick has computed        *)
(* (previous + 1 tenth, or -20 tenths with the jump input); no later     *)
(* step of the tick changes it.                                          *)
C13_PositionIntegration ==
    [][\A j \in BOOLEAN, c \in BOOLEAN, r \in RandDraws :
          (Playing /\ Update(j, c, r)) =>
              birdY' = birdY + (IF j THEN -20 ELSE birdDY + 1)]_vars

(* the identities of the pillars of a slice *)
Ids(ps) == {ps[i].id : i \in 1..Len(ps)}

(* C14: on a tick that begins in PLAYING the loop drops from the front   *)
(* exactly the pillars that cross below -200 on that tick, at most one;  *)
(* the dropped pillar is the first of the sequence, no pillar left at    *)
(* x >= -200 is dropped, and no pillar with x < -200 stays (checked at   *)
(* line 86, which is the end of every tick that does not call Reset).    *)
C14_FrontRemoval ==
    /\ \A i \in 1..Len(pillars) : pillars[i].x >= -200
    /\ Playing =>
          \A j \in BOOLEAN, c \in BOOLEAN, r \in RandDraws :
              LET m == BeforeConfirm(G, j, r)
                  n == UpdateResult(G, j, c, r)
                  gone == Ids(pillars) \ Ids(m.pillars)
              IN /\ gone = {pillars[i].id : i \in Crossing}
                 /\ Cardinality(gone) <= 1
                 /\ gone # {} => gone = {pillars[1].id}
                 /\ \A k \in 1..Len(m.pillars) : m.pillars[k].x >= -200
                 /\ ~Resets(j, c, r) => n.pillars = m.pillars

(* the second pillar has just been dropped, the third is alone on screen *)
C14_Witness ==
    /\ Playing /\ frameCount = 706 /\ score = 2
    /\ Len(pillars) = 1 /\ pillars[1].id = 3


(* C15: each pillar is drawn as two sprites at the pillar's x, the upper  *)
(* one ending at pillar.y (so its top edge is above pillar.y) and the     *)
(* lower one starting at pillar.y + 200, so that the drawn gap is the gap *)
(* band [pillar.y, pillar.y + 200] of the collision check.                *)
C15_DrawnGapIsCollisionGap ==
    \A i \in 1..Len(pillars) :
        LET d == DrawPillar(pillars[i])
        IN /\ d.upper.x = pillars[i].x /\ d.lower.x = pillars[i].x
           /\ d.upper.y < pillars[i].y
           /\ d.lower.y = pillars[i].y + 200


(* C16: in every reachable state score + number of pillars in the        *)
(* sequence = floor(frame counter / 213): every pillar spawned since the *)
(* last reset is either still in the sequence or counted in the score.   *)
C16_PillarsConserved ==
    score + Len(pillars) = frameCount \div 213

(* three pillars have passed and were counted; the fourth is on screen *)
C16_Witness ==
    Playing /\ score = 3 /\ frameCount = 919 /\ Len(pillars) = 1

(* C18: the tick that sees the jump input in WAITING runs a whole        *)
(* playing step: it ends in PLAYING with frame counter 1, velocity -20   *)
(* tenths and the position 20 tenths above the previous one.             *)
C18_StartTickPlays ==
    Waiting =>
        \A c \in BOOLEAN, r \in RandDraws :
            LET n == UpdateResult(G, TRUE, c, r)
            IN /\ StateOf(n) = "PLAYING"
               /\ n.frameCount = 1
               /\ n.birdDY = -20
               /\ n.birdY = birdY - 20

(* the state after the tick that started a game from the reset position *)
C18_Witness ==
    Playing /\ frameCount = 1 /\ birdDY = -20 /\ birdY = 3150 - 20

(* C19: between ticks the sequence holds at most 2 pillars and every     *)
(* pillar has -200 <= x <= 637.                                          *)
C19_AtMostTwoOnScreen ==
    /\ Len(pillars) <= 2
    /\ \A i \in 1..Len(pillars) : -200 <= pillars[i].x /\ pillars[i].x <= 637

(* two pillars, the older one on its last tick at the left edge *)
C19_Witness ==
    Len(pillars) = 2 /\ pillars[1].x = -200 /\ pillars[2].x = 439


(* between ticks every pillar stands where the frame counter says: 3 px   *)
(* left of the edge for each tick since its spawn, the spawn tick included *)
WholeTicks(g) ==
    \A i \in 1..Len(g.pillars) :
        g.pillars[i].x = 640 - 3 * (g.frameCount - 213 * g.pillars[i].id + 1)

(* C17: g.mu guards the whole Game, so with Update and Draw run as two    *)
(* threads the game Draw reads while it holds the lock is never a partly  *)
(* applied tick (such as one whose counter is incremented and whose       *)
(* pillars are not yet moved).                                            *)
C17_DrawSeesWholeTicks ==
    pcDraw = "line100" => WholeTicks(G)


(* in the game loop as ebiten runs it (one tick at a time) the same holds *)
(* of every state                                                         *)
SequentialWholeTicks == WholeTicks(G)


(* C20: once the game is PLAYING and the jump input is never active      *)
(* again, the game eventually is OVER, whatever the gap offsets drawn.   *)
C20_FallEndsInOver ==
    (Playing /\ released) ~> Over

(* what does hold: the falling game always leaves PLAYING, and before    *)
(* the frames explored run out                                           *)
FallLeavesPlaying == (Playing /\ released) ~> ~Playing
FallWithinFrames == Playing /\ released => frameCount < MaxFrame - 100

====
